---- MODULE Spec2Model ----
(***************************************************************************)
(* Model of the crime prediction dashboard (src/app.py): the cached        *)
(* artifact loaders, one script run of the Prediction page per user        *)
(* session (load artifacts, render inputs, score every crime type, rank,   *)
(* classify, alert) and the files the loaders read.                        *)
(*                                                                         *)
(* Scores are floats in the program; they are modelled as integers, which  *)
(* keeps the two comparisons (> 150, > 80) and the ordering exact.  81 and *)
(* 151 stand for the scores just above the thresholds.                     *)
(***************************************************************************)
EXTENDS Integers, Sequences, FiniteSets, TLC

\* ------------------------------------------------------------- bounds --
NumSessions == 2
NumTypes == 3
MaxResults == 6

\* -------------------------------------------------- program constants --
YearMin == 2026
YearMax == 2029
HighThreshold == 150
ModerateThreshold == 80
TopN == 5
YearDefault == 2027

Sessions == 1..NumSessions
Years == YearMin..YearMax
KindOrder == <<"model", "encoders", "defaults">>
Kinds == {KindOrder[i] : i \in DOMAIN KindOrder}

Range(f) == {f[i] : i \in DOMAIN f}
Min(a, b) == IF a <= b THEN a ELSE b

\* A path is the sequence of its components (os.path.join), a message the
\* sequence of its pieces; a message contains a path when the path's
\* components occur in it contiguously.
BASE_DIR == "<BASE_DIR>"
MODEL_PATH == <<BASE_DIR, "crime_model.pkl">>
ENCODER_PATH == <<BASE_DIR, "label_encoders.pkl">>
DEFAULT_PATH == <<BASE_DIR, "defaults.pkl">>

PathOf(k) ==
  CASE k = "model" -> MODEL_PATH
    [] k = "encoders" -> ENCODER_PATH
    [] k = "defaults" -> DEFAULT_PATH

MissingMessage(k) ==
  CASE k = "model" -> <<"Model file not found at:">> \o MODEL_PATH
    [] k = "encoders" -> <<"Label encoders file not found.">>
    [] k = "defaults" -> <<"defaults.pkl", "not found.">>

Contains(msg, path) ==
  \E i \in 0..(Len(msg) - Len(path)) :
    \A j \in 1..Len(path) : msg[i + j] = path[j]

\* ---------------------------------------------------------- artifacts --
\* What the three files may hold.  Version 0 of a file is "absent".
\* LabelEncoder.classes_ is sorted and duplicate-free.
TypeNames ==
  <<"arson", "burglary", "causing_injury", "murder",
    "rape", "robbery", "theft", "vehicle_theft">>

LeafValues == <<10, 80, 81, 150, 151, 200, 81>>

\* Score lists for a model that scores by crime type alone: every list over
\* RankScores is ScoresOf(m) for exactly one m (bijective numeration).
RankScores == <<80, 81, 150, 151>>

RECURSIVE ScoresOf(_)
ScoresOf(m) ==
  IF m = 0 THEN <<>>
  ELSE Append(ScoresOf((m - 1) \div Len(RankScores)),
              RankScores[((m - 1) % Len(RankScores)) + 1])

\* Versions 1 and 2 are two trained models; version 3 + m declares the one
\* feature "type" and scores the i-th crime type ScoresOf(m)[i].
ModelFile(v) ==
  CASE v = 1 -> [feature_name_ |-> <<"state", "category", "type", "year", "pop">>,
                 leaf |-> LeafValues]
    [] v = 2 -> [feature_name_ |-> <<"type", "year", "missing_col">>,
                 leaf |-> LeafValues]
    [] OTHER -> [feature_name_ |-> <<"type">>, leaf |-> ScoresOf(v - 3)]

\* Versions 1 and 2 are two encoder banks; version 3 + n has the first n
\* crime types as its type vocabulary.
EncoderFile(v) ==
  CASE v = 1 -> [state |-> <<"johor">>,
                 category |-> <<"assault", "property">>,
                 type |-> SubSeq(TypeNames, 1, NumTypes)]
    [] v = 2 -> [state |-> <<"johor", "kedah">>,
                 category |-> <<"property">>,
                 type |-> <<>>]
    [] OTHER -> [state |-> <<"johor">>,
                 category |-> <<"assault">>,
                 type |-> SubSeq(TypeNames, 1, v - 3)]

DefaultsFile(v) ==
  CASE v = 1 -> [pop |-> 100, area |-> 7]
    [] v = 2 -> [pop |-> 100, year |-> 2020]
    [] OTHER -> [pop |-> 100, state |-> "perak"]

NumVersions(k) == IF k = "defaults" THEN 3 ELSE 2

\* joblib.load of kind k when the file holds version v
FileContent(k, v) ==
  CASE k = "model" -> ModelFile(v)
    [] k = "encoders" -> EncoderFile(v)
    [] k = "defaults" -> DefaultsFile(v)

\* ------------------------------------------------------ pure pipeline --
\* st.selectbox over an empty option list returns None
Choices(classes) == IF classes = <<>> THEN {"None"} ELSE Range(classes)

\* pd.DataFrame({...}) of the four UI fields, then one column assignment
\* per Defaults item: an assignment to an existing column replaces it.
BuildRow(state, category, crime_type, year, DEFAULTS) ==
  LET base == [state |-> state, category |-> category,
               type |-> crime_type, year |-> year]
  IN [col \in DOMAIN base \cup DOMAIN DEFAULTS |->
        IF col \in DOMAIN DEFAULTS THEN DEFAULTS[col] ELSE base[col]]

\* LabelEncoder.transform of one label: its index in classes_, ValueError
\* for a label outside classes_.
Known(classes, label) == \E i \in DOMAIN classes : classes[i] = label
Transform(classes, label) ==
  (CHOOSE i \in DOMAIN classes : classes[i] = label) - 1

EncodedColumns == <<"state", "category", "type">>

\* The first encoded column whose label its encoder does not know, 0 if none
FirstUnknown(row, encoders) ==
  LET bad == {i \in DOMAIN EncodedColumns :
                ~Known(encoders[EncodedColumns[i]], row[EncodedColumns[i]])}
  IN IF bad = {} THEN 0 ELSE CHOOSE i \in bad : \A j \in bad : i <= j

Encode(row, encoders) ==
  [col \in DOMAIN row |->
     IF col \in Range(EncodedColumns)
     THEN Transform(encoders[col], row[col])
     ELSE row[col]]

\* input_df[model.feature_name_]: KeyError naming the absent columns,
\* otherwise the declared columns in the declared order.
MissingFeatures(row, feature_name_) == Range(feature_name_) \ DOMAIN row

Align_reversed(row, feature_name_) ==
  [i \in 1..Len(feature_name_) |->
     row[feature_name_[Len(feature_name_) + 1 - i]]]

Align(row, feature_name_) ==
  [i \in 1..Len(feature_name_) |-> row[feature_name_[i]]]

\* model.predict on one aligned row: a deterministic function of the row
\* alone (a tree ensemble), here a leaf picked by a weighted sum.
RECURSIVE WeightedSum(_, _)
WeightedSum(x, n) == IF n = 0 THEN 0 ELSE n * x[n] + WeightedSum(x, n - 1)

Predict(model, x) ==
  model.leaf[(WeightedSum(x, Len(x)) % Len(model.leaf)) + 1]

\* sorted(results, key=lambda x: x[1], reverse=True): a stable sort, and
\* reverse=True keeps equal keys in their original order.
InsertDesc_unstable(sorted, e) ==
  LET k == Cardinality({i \in DOMAIN sorted : sorted[i][2] > e[2]})
  IN SubSeq(sorted, 1, k) \o <<e>> \o SubSeq(sorted, k + 1, Len(sorted))

InsertDesc(sorted, e) ==
  LET k == Cardinality({i \in DOMAIN sorted : sorted[i][2] >= e[2]})
  IN SubSeq(sorted, 1, k) \o <<e>> \o SubSeq(sorted, k + 1, Len(sorted))

RECURSIVE SortedDesc(_)
SortedDesc(rs) ==
  IF rs = <<>> THEN <<>>
  ELSE InsertDesc(SortedDesc(SubSeq(rs, 1, Len(rs) - 1)), rs[Len(rs)])

Top5_unsorted(rs) == SubSeq(rs, 1, Min(TopN, Len(rs)))

Top5(rs) == SubSeq(SortedDesc(rs), 1, Min(TopN, Len(rs)))

Classify_inclusive(score) ==
  IF score >= HighThreshold THEN "High"
  ELSE IF score >= ModerateThreshold THEN "Moderate"
  ELSE "Low"

Classify(score) ==
  IF score > HighThreshold THEN "High"
  ELSE IF score > ModerateThreshold THEN "Moderate"
  ELSE "Low"

\* crime.replace('_', ' ').title() on the vocabulary
DisplayName(crime) ==
  CASE crime = "arson" -> "Arson"
    [] crime = "burglary" -> "Burglary"
    [] crime = "causing_injury" -> "Causing Injury"
    [] crime = "murder" -> "Murder"
    [] crime = "rape" -> "Rape"
    [] crime = "robbery" -> "Robbery"
    [] crime = "theft" -> "Theft"
    [] crime = "vehicle_theft" -> "Vehicle Theft"

\* UI elements all have the same shape
Element(el, rank, text) == [el |-> el, rank |-> rank, text |-> text]

\* for i, (crime, score) in enumerate(top5, start=1): st.markdown(...)
EntryLines(t5) ==
  [i \in 1..Len(t5) |->
     Element("entry", i, <<DisplayName(t5[i][1]), Classify(t5[i][2])>>)]

high_risk_detected(t5) ==
  \E i \in DOMAIN t5 : Classify(t5[i][2]) = "High"

moderate_risk_detected(t5) ==
  \E i \in DOMAIN t5 : Classify(t5[i][2]) = "Moderate"

AlertLines_cumulative(t5) ==
  (IF high_risk_detected(t5)
   THEN <<Element("alert", 0, <<"High">>)>> ELSE <<>>)
  \o (IF moderate_risk_detected(t5)
      THEN <<Element("alert", 0, <<"Moderate">>)>> ELSE <<>>)
  \o (IF ~high_risk_detected(t5) /\ ~moderate_risk_detected(t5)
      THEN <<Element("alert", 0, <<"Stable">>)>> ELSE <<>>)

AlertLines(t5) ==
  IF high_risk_detected(t5) THEN <<Element("alert", 0, <<"High">>)>>
  ELSE IF moderate_risk_detected(t5)
       THEN <<Element("alert", 0, <<"Moderate">>)>>
       ELSE <<Element("alert", 0, <<"Stable">>)>>

\* -------------------------------------------------------------- state --
VARIABLES
  files,     \* per artifact kind, the version its file holds (0: absent)
  cache,     \* st.cache_resource: per kind, <<>> or <<the cached object>>
  loadLog,   \* per kind, the versions joblib.load has deserialized so far
  staleHit,  \* per kind, a loader call was served from the cache while
             \* the file no longer held the version that was loaded
  pc,        \* per session, the position of its script run
  art,       \* per session, model / encoders / DEFAULTS of the run
  sel,       \* per session, state / category / year of the run
  results,   \* per session, the run's results list
  top5,      \* per session, the run's top5 list
  ui,        \* per session, the elements the run has rendered
  err,       \* per session, <<>> or <<the exception that ended the run>>
  built,     \* per session, <<>> or <<the last row built, before encoding>>
  calls      \* per session, the rows passed to model.predict in the run

vars == <<files, cache, loadLog, staleHit, pc, art, sel, results, top5, ui,
          err, built, calls>>

process == <<files, cache, loadLog, staleHit>>

NoArt == [k \in Kinds |-> <<>>]
NoSel == [state |-> "", category |-> "", year |-> 0]
Resting == {"idle", "end", "done", "stopped", "failed"}

IdleSessions ==
  /\ pc = [s \in Sessions |-> "idle"]
  /\ art = [s \in Sessions |-> NoArt]
  /\ sel = [s \in Sessions |-> NoSel]
  /\ results = [s \in Sessions |-> <<>>]
  /\ top5 = [s \in Sessions |-> <<>>]
  /\ ui = [s \in Sessions |-> <<>>]
  /\ err = [s \in Sessions |-> <<>>]
  /\ built = [s \in Sessions |-> <<>>]
  /\ calls = [s \in Sessions |-> <<>>]

Init ==
  /\ files \in {f \in [Kinds -> 0..3] : \A k \in Kinds : f[k] <= NumVersions(k)}
  /\ cache = [k \in Kinds |-> <<>>]
  /\ loadLog = [k \in Kinds |-> <<>>]
  /\ staleHit = [k \in Kinds |-> FALSE]
  /\ IdleSessions

\* -------------------------------------------------------- environment --
RemoveFile(k) ==
  /\ files[k] # 0
  /\ files' = [files EXCEPT ![k] = 0]
  /\ UNCHANGED <<cache, loadLog, staleHit, pc, art, sel, results, top5, ui,
                 err, built, calls>>

WriteFile(k, v) ==
  /\ files[k] # v
  /\ files' = [files EXCEPT ![k] = v]
  /\ UNCHANGED <<cache, loadLog, staleHit, pc, art, sel, results, top5, ui,
                 err, built, calls>>

\* ------------------------------------------------------- a script run --
\* A new script run starts with fresh locals and an empty page.
StartRun(s, position, page) ==
  /\ pc[s] \in Resting
  /\ pc' = [pc EXCEPT ![s] = position]
  /\ art' = [art EXCEPT ![s] = NoArt]
  /\ sel' = [sel EXCEPT ![s] = NoSel]
  /\ results' = [results EXCEPT ![s] = <<>>]
  /\ top5' = [top5 EXCEPT ![s] = <<>>]
  /\ ui' = [ui EXCEPT ![s] = page]
  /\ err' = [err EXCEPT ![s] = <<>>]
  /\ built' = [built EXCEPT ![s] = <<>>]
  /\ calls' = [calls EXCEPT ![s] = <<>>]
  /\ UNCHANGED process

\* selected_page is Home, Dashboard or Alerts & Feedback
OtherPage(s) == StartRun(s, "end", <<Element("page", 0, <<>>)>>)

\* selected_page is Prediction: st.header, then the loaders
PredictionPage(s) ==
  StartRun(s, "load_model", <<Element("header", 0, <<"Crime Prediction">>)>>)

\* @st.cache_resource: the function body runs only on a cache miss, under the
\* cache's lock, and its return value is stored; an exception stores nothing.
CacheHit_never(k) == FALSE

CacheHit(k) == cache[k] # <<>>

Loader(s, k, next) ==
  IF CacheHit(k)
  THEN /\ art' = [art EXCEPT ![s][k] = cache[k]]
       /\ pc' = [pc EXCEPT ![s] = next]
       /\ staleHit' = [staleHit EXCEPT ![k] = @ \/ files[k] # loadLog[k][1]]
       /\ UNCHANGED <<files, cache, loadLog, ui>>
  ELSE IF files[k] = 0
  THEN \* st.error(...); st.stop()
       /\ ui' = [ui EXCEPT ![s] = Append(@, Element("error", 0, MissingMessage(k)))]
       /\ pc' = [pc EXCEPT ![s] = "stopped"]
       /\ UNCHANGED <<files, cache, loadLog, staleHit, art>>
  ELSE \* return joblib.load(path)
       /\ cache' = [cache EXCEPT ![k] = <<FileContent(k, files[k])>>]
       /\ loadLog' = [loadLog EXCEPT ![k] = Append(@, files[k])]
       /\ art' = [art EXCEPT ![s][k] = <<FileContent(k, files[k])>>]
       /\ pc' = [pc EXCEPT ![s] = next]
       /\ UNCHANGED <<files, staleHit, ui>>

load_model(s) ==
  /\ pc[s] = "load_model"
  /\ Loader(s, "model", "load_encoders")
  /\ UNCHANGED <<sel, results, top5, err, built, calls>>

load_encoders(s) ==
  /\ pc[s] = "load_encoders"
  /\ Loader(s, "encoders", "load_defaults")
  /\ UNCHANGED <<sel, results, top5, err, built, calls>>

load_defaults(s) ==
  /\ pc[s] = "load_defaults"
  /\ Loader(s, "defaults", "inputs")
  /\ UNCHANGED <<sel, results, top5, err, built, calls>>

\* The two selectboxes, the slider and the button; with the button pressed
\* the run goes on to the scoring loop with results = [].
RenderInputs(s) ==
  /\ pc[s] = "inputs"
  /\ \E state \in Choices(art[s]["encoders"][1].state),
        category \in Choices(art[s]["encoders"][1].category),
        year \in Years, pressed \in BOOLEAN :
       /\ sel' = [sel EXCEPT ![s] =
                    [state |-> state, category |-> category, year |-> year]]
       /\ ui' = [ui EXCEPT ![s] = Append(@, Element("inputs", 0, <<state, category>>))]
       /\ pc' = [pc EXCEPT ![s] = IF pressed THEN "loop" ELSE "end"]
  /\ results' = [results EXCEPT ![s] = <<>>]
  /\ UNCHANGED <<process, art, top5, err, built, calls>>

crime_types(s) == art[s]["encoders"][1].type

\* results.append((crime_type, pred))
AppendResult_shared(res, s, entry) ==
  [t \in Sessions |-> Append(res[t], entry)]

AppendResult(res, s, entry) == [res EXCEPT ![s] = Append(@, entry)]

\* An exception nothing catches ends the script run; Streamlit shows it.
Raise(s, type, names) ==
  /\ err' = [err EXCEPT ![s] = <<[type |-> type, names |-> names]>>]
  /\ ui' = [ui EXCEPT ![s] = Append(@, Element("exception", 0, <<type>>))]
  /\ pc' = [pc EXCEPT ![s] = "failed"]
  /\ UNCHANGED <<results, calls>>

\* One iteration of `for crime_type in crime_types`
ScoreCandidate(s) ==
  /\ pc[s] = "loop"
  /\ Len(results[s]) < Len(crime_types(s))
  /\ LET model == art[s]["model"][1]
         encoders == art[s]["encoders"][1]
         DEFAULTS == art[s]["defaults"][1]
         crime_type == crime_types(s)[Len(results[s]) + 1]
         row == BuildRow(sel[s].state, sel[s].category, crime_type,
                         sel[s].year, DEFAULTS)
         bad == FirstUnknown(row, encoders)
     IN /\ built' = [built EXCEPT ![s] = <<row>>]
        /\ IF bad # 0
           THEN Raise(s, "ValueError", {row[EncodedColumns[bad]]})
           ELSE LET input_df == Encode(row, encoders)
                    missing == MissingFeatures(input_df, model.feature_name_)
                IN IF missing # {}
                   THEN Raise(s, "KeyError", missing)
                   ELSE LET x == Align(input_df, model.feature_name_)
                            pred == Predict(model, x)
                        IN /\ results' = AppendResult(results, s, <<crime_type, pred>>)
                           /\ calls' = [calls EXCEPT ![s] = Append(@, x)]
                           /\ UNCHANGED <<err, ui, pc>>
  /\ UNCHANGED <<process, art, sel, top5>>

\* The for loop is exhausted
LoopDone_early(s) == TRUE

LoopDone(s) == Len(results[s]) >= Len(crime_types(s))

\* top5, the ranked entries, the alert and the recommended actions
Display(s) ==
  /\ pc[s] = "loop"
  /\ LoopDone(s)
  /\ top5' = [top5 EXCEPT ![s] = Top5(results[s])]
  /\ ui' = [ui EXCEPT ![s] =
              @ \o <<Element("subheader", 0, <<"Top 5 Predicted Crime Types">>)>>
                \o EntryLines(Top5(results[s]))
                \o AlertLines(Top5(results[s]))
                \o <<Element("recommended", 0, <<>>)>>]
  /\ pc' = [pc EXCEPT ![s] = "done"]
  /\ UNCHANGED <<process, art, sel, results, err, built, calls>>

SessionStep(s) ==
  \/ OtherPage(s)
  \/ PredictionPage(s)
  \/ load_model(s)
  \/ load_encoders(s)
  \/ load_defaults(s)
  \/ RenderInputs(s)
  \/ ScoreCandidate(s)
  \/ Display(s)

Environment ==
  \/ \E k \in Kinds : RemoveFile(k)
  \/ \E k \in Kinds : \E v \in 1..NumVersions(k) : WriteFile(k, v)

\* One user session, page after page, while files come and go.
Next == SessionStep(1) \/ Environment

Spec == Init /\ [][Next]_vars

\* Several user sessions, their script runs interleaved, on a deployment
\* whose files are all present and stay as they are.
InitDeployed == Init /\ \A k \in Kinds : files[k] # 0

NextSessions == \E s \in Sessions : SessionStep(s)

SpecSessions == InitDeployed /\ [][NextSessions]_vars

\* The ranking, classification and alert applied to every list of scores
\* over RankScores of at most MaxResults crime types: the state of a script
\* run whose scoring loop has just ended, on a deployment whose model scores
\* the crime types ScoresOf(m).
ScoredRun(model, encoders, DEFAULTS, selection) ==
  LET row(i) == Encode(BuildRow(selection.state, selection.category,
                                encoders.type[i], selection.year, DEFAULTS),
                       encoders)
      x(i) == Align(row(i), model.feature_name_)
  IN [results |-> [i \in 1..Len(encoders.type) |->
                     <<encoders.type[i], Predict(model, x(i))>>],
      calls |-> [i \in 1..Len(encoders.type) |-> x(i)],
      built |-> IF encoders.type = <<>> THEN <<>>
                ELSE <<BuildRow(selection.state, selection.category,
                                encoders.type[Len(encoders.type)],
                                selection.year, DEFAULTS)>>]

AfterLoop(m) ==
  LET n == Len(ScoresOf(m))
      version == [k \in Kinds |->
                    CASE k = "model" -> 3 + m
                      [] k = "encoders" -> 3 + n
                      [] k = "defaults" -> 1]
      loaded == [k \in Kinds |-> <<FileContent(k, version[k])>>]
      selection == [state |-> "johor", category |-> "assault", year |-> YearDefault]
      run == ScoredRun(loaded["model"][1], loaded["encoders"][1],
                       loaded["defaults"][1], selection)
      first(a, b) == [s \in Sessions |-> IF s = 1 THEN a ELSE b]
  IN /\ files = version
     /\ cache = loaded
     /\ loadLog = [k \in Kinds |-> <<version[k]>>]
     /\ staleHit = [k \in Kinds |-> FALSE]
     /\ pc = first("loop", "idle")
     /\ art = first(loaded, NoArt)
     /\ sel = first(selection, NoSel)
     /\ results = first(run.results, <<>>)
     /\ top5 = first(<<>>, <<>>)
     /\ ui = first(<<Element("header", 0, <<"Crime Prediction">>),
                     Element("inputs", 0, <<"johor", "assault">>)>>, <<>>)
     /\ err = first(<<>>, <<>>)
     /\ built = first(run.built, <<>>)
     /\ calls = first(run.calls, <<>>)

\* the number of score lists of length at most n
RECURSIVE ListCount(_)
ListCount(n) == IF n = 0 THEN 1 ELSE 1 + Len(RankScores) * ListCount(n - 1)

InitRank == \E m \in 0..(ListCount(MaxResults) - 1) : AfterLoop(m)

NextRank == Display(1)

SpecRank == InitRank /\ [][NextRank]_vars

\* ------------------------------------------------------------- claims --
Entries(s) == SelectSeq(ui[s], LAMBDA e : e.el = "entry")
Alerts(s) == SelectSeq(ui[s], LAMBDA e : e.el = "alert")
Shown(s, el) == \E i \in DOMAIN ui[s] : ui[s][i].el = el
LabelOf(e) == e.text[2]
Labels(s) == {LabelOf(Entries(s)[i]) : i \in DOMAIN Entries(s)}

\* C1: in a completed prediction run every displayed entry carries exactly
\* one of the three labels: High exactly when its score is > 150, Moderate
\* exactly when 80 < score <= 150, Low exactly when score <= 80.
C1_RiskLabels ==
  \A s \in Sessions :
    pc[s] = "done" =>
      /\ Len(Entries(s)) = Len(top5[s])
      /\ \A i \in DOMAIN top5[s] :
           LET score == top5[s][i][2]
               label == LabelOf(Entries(s)[i])
           IN /\ label \in {"High", "Moderate", "Low"}
              /\ (label = "High") <=> (score > 150)
              /\ (label = "Moderate") <=> (80 < score /\ score <= 150)
              /\ (label = "Low") <=> (score <= 80)

\* A completed run that shows a score of exactly 150 as Moderate, one of
\* exactly 80 as Low, and scores just above each threshold.
C1_Witness ==
  /\ pc[1] = "done"
  /\ \E i, j, k, l \in DOMAIN top5[1] :
       /\ top5[1][i][2] = 150 /\ LabelOf(Entries(1)[i]) = "Moderate"
       /\ top5[1][j][2] = 80 /\ LabelOf(Entries(1)[j]) = "Low"
       /\ top5[1][k][2] = 151 /\ LabelOf(Entries(1)[k]) = "High"
       /\ top5[1][l][2] = 81 /\ LabelOf(Entries(1)[l]) = "Moderate"

\* the position in the run's results of the entry for a crime type
PositionOf(s, crime) == CHOOSE i \in DOMAIN results[s] : results[s][i][1] = crime

\* C2: the ranking keeps exactly min(5, |results|) distinct entries of the
\* input, in non-increasing score order, omits no entry that scores strictly
\* higher than a kept one, and orders (and cuts) equal scores by input order.
C2_Ranking ==
  \A s \in Sessions :
    pc[s] = "done" =>
      LET kept == {top5[s][i][1] : i \in DOMAIN top5[s]}
      IN /\ Len(top5[s]) = (IF Len(results[s]) < 5 THEN Len(results[s]) ELSE 5)
         /\ \A i \in DOMAIN top5[s] :
              \E j \in DOMAIN results[s] : results[s][j] = top5[s][i]
         /\ Cardinality(kept) = Len(top5[s])
         /\ \A i, j \in DOMAIN top5[s] :
              i < j =>
                /\ top5[s][i][2] >= top5[s][j][2]
                /\ top5[s][i][2] = top5[s][j][2] =>
                     PositionOf(s, top5[s][i][1]) < PositionOf(s, top5[s][j][1])
         /\ \A j \in DOMAIN results[s] :
              results[s][j][1] \notin kept =>
                \A i \in DOMAIN top5[s] :
                  /\ results[s][j][2] <= top5[s][i][2]
                  /\ results[s][j][2] = top5[s][i][2] =>
                       PositionOf(s, top5[s][i][1]) < j

\* A completed run over more than five crime types where the cut-off falls
\* inside a group of equal scores and a later input outranks an earlier one.
C2_Witness ==
  /\ pc[1] = "done"
  /\ Len(results[1]) > 5
  /\ Len(top5[1]) = 5
  /\ \E j \in DOMAIN results[1] :
       /\ \A i \in DOMAIN top5[1] : top5[1][i][1] # results[1][j][1]
       /\ results[1][j][2] = top5[1][5][2]
  /\ top5[1][4][2] = top5[1][5][2]
  /\ PositionOf(1, top5[1][1][1]) > PositionOf(1, top5[1][2][1])

\* C3: a completed prediction run shows exactly one alert: High if a
\* displayed entry is labelled High, otherwise Moderate if one is labelled
\* Moderate, otherwise Stable.
C3_OneAlert ==
  \A s \in Sessions :
    pc[s] = "done" =>
      /\ Len(Alerts(s)) = 1
      /\ Alerts(s)[1].text =
           (IF "High" \in Labels(s) THEN <<"High">>
            ELSE IF "Moderate" \in Labels(s) THEN <<"Moderate">>
            ELSE <<"Stable">>)

\* A completed run whose entries include both a High and a Moderate one.
C3_Witness ==
  /\ pc[1] = "done"
  /\ {"High", "Moderate"} \subseteq Labels(1)
  /\ Alerts(1) = <<Element("alert", 0, <<"High">>)>>

RankOf(label) ==
  CASE label = "High" -> 2 [] label = "Moderate" -> 1 [] label = "Low" -> 0

\* C10: in a completed run the tiers of the displayed entries never increase
\* down the ranking and the alert is the tier of the first entry alone (High
\* iff its score > 150, Moderate iff in (80, 150], Stable iff <= 80); with no
\* crime types there are no entries and the alert is Stable.
C10_AlertIsTopTier ==
  \A s \in Sessions :
    pc[s] = "done" =>
      /\ \A i, j \in DOMAIN Entries(s) :
           i < j => RankOf(LabelOf(Entries(s)[i])) >= RankOf(LabelOf(Entries(s)[j]))
      /\ Len(Alerts(s)) = 1
      /\ IF results[s] = <<>>
         THEN Entries(s) = <<>> /\ Alerts(s)[1].text = <<"Stable">>
         ELSE /\ Entries(s) # <<>>
              /\ (Alerts(s)[1].text = <<"High">>) <=> (top5[s][1][2] > 150)
              /\ (Alerts(s)[1].text = <<"Moderate">>) <=>
                   (80 < top5[s][1][2] /\ top5[s][1][2] <= 150)
              /\ (Alerts(s)[1].text = <<"Stable">>) <=> (top5[s][1][2] <= 80)

\* A completed run that lists all three tiers, scored in another order.
C10_Witness ==
  /\ pc[1] = "done"
  /\ Labels(1) = {"High", "Moderate", "Low"}
  /\ results[1][1][2] <= 80
  /\ Alerts(1)[1].text = <<"High">>

\* the artifact kind a stopped run was loading: the first one it lacks
StoppedKind(s) ==
  KindOrder[CHOOSE i \in DOMAIN KindOrder :
              /\ art[s][KindOrder[i]] = <<>>
              /\ \A j \in 1..(i - 1) : art[s][KindOrder[j]] # <<>>]

\* C4: a run that stops because an artifact's file is absent ends with an
\* error that contains that file's path, has loaded no later artifact, has
\* rendered no input control and has run no prediction.
C4_MissingArtifactHalts ==
  \A s \in Sessions :
    pc[s] = "stopped" =>
      /\ ui[s][Len(ui[s])].el = "error"
      /\ Contains(ui[s][Len(ui[s])].text, PathOf(StoppedKind(s)))
      /\ \A i \in DOMAIN KindOrder :
           (\E j \in 1..i : KindOrder[j] = StoppedKind(s)) =>
             art[s][KindOrder[i]] = <<>>
      /\ ~Shown(s, "inputs") /\ ~Shown(s, "entry") /\ ~Shown(s, "alert")
      /\ results[s] = <<>> /\ calls[s] = <<>>

\* C5: each artifact kind is deserialized at most once; what the cache and
\* every run hold for a kind is the object of that one load, also after the
\* file has been removed or replaced.
C5_LoadedAtMostOnce ==
  \A k \in Kinds :
    /\ Len(loadLog[k]) <= 1
    /\ (cache[k] # <<>>) <=> (loadLog[k] # <<>>)
    /\ cache[k] # <<>> => cache[k] = <<FileContent(k, loadLog[k][1])>>
    /\ \A s \in Sessions : art[s][k] # <<>> => art[s][k] = cache[k]

\* Loader calls served from the cache after the file was removed (one kind)
\* and after it was replaced by another version (another kind).
C5_Witness ==
  \E k1, k2 \in Kinds :
    /\ staleHit[k1] /\ files[k1] = 0
    /\ staleHit[k2] /\ files[k2] # 0 /\ files[k2] # loadLog[k2][1]
    /\ art[1][k1] # <<>> /\ art[1][k2] # <<>>

UIFields == {"state", "category", "type", "year"}

\* the crime type of the last row built in the run
LastCrimeType(s) ==
  crime_types(s)[IF pc[s] = "failed" THEN Len(results[s]) + 1 ELSE Len(results[s])]

\* C6: the row built for a candidate has exactly the four UI fields and the
\* Defaults keys; the UI fields carry the selection and the iterated crime
\* type, whatever Defaults holds, and every other key its default.
C6_RowKeepsUIFields ==
  \A s \in Sessions :
    built[s] # <<>> =>
      LET row == built[s][1]
          DEFAULTS == art[s]["defaults"][1]
      IN /\ DOMAIN row = UIFields \cup DOMAIN DEFAULTS
         /\ \A col \in DOMAIN DEFAULTS \ UIFields : row[col] = DEFAULTS[col]
         /\ row["state"] = sel[s].state
         /\ row["category"] = sel[s].category
         /\ row["type"] = LastCrimeType(s)
         /\ row["year"] = sel[s].year

\* C7: the model is invoked once per scored candidate, with exactly the
\* values of its declared features in the declared order; a row that lacks
\* a declared feature ends the run with a KeyError naming the absent
\* features, and the model is not invoked for it.
C7_Alignment ==
  \A s \in Sessions :
    built[s] # <<>> =>
      LET model == art[s]["model"][1]
          encoders == art[s]["encoders"][1]
          row == built[s][1]
          declared == model.feature_name_
          absent == {declared[i] : i \in DOMAIN declared} \ DOMAIN row
      IN /\ Len(calls[s]) = Len(results[s])
         /\ \A c \in DOMAIN calls[s] : Len(calls[s][c]) = Len(declared)
         /\ (pc[s] # "failed") =>
              /\ absent = {}
              /\ calls[s] # <<>>
              /\ \A i \in DOMAIN declared :
                   calls[s][Len(calls[s])][i] = Encode(row, encoders)[declared[i]]
         /\ (FirstUnknown(row, encoders) = 0 /\ absent # {}) =>
              /\ pc[s] = "failed"
              /\ err[s] = <<[type |-> "KeyError", names |-> absent]>>
              /\ Len(calls[s]) = Len(results[s])
              /\ Len(results[s]) < Len(crime_types(s))
         /\ (pc[s] = "failed" /\ err[s][1].type = "KeyError") => absent # {}

\* A run ended by a KeyError naming missing_col before any model call.
C7_Witness ==
  /\ pc[1] = "failed"
  /\ err[1] = <<[type |-> "KeyError", names |-> {"missing_col"}]>>
  /\ "area" \in DOMAIN built[1][1]
  /\ calls[1] = <<>>

\* C8: entries, alert and top5 exist only in a run that has scored every
\* crime type of the vocabulary once, in vocabulary order; a run ended by
\* an exception shows no entry and no alert.
C8_CompleteBeforeRanking ==
  \A s \in Sessions :
    /\ (pc[s] = "done" \/ top5[s] # <<>> \/ Shown(s, "entry") \/ Shown(s, "alert")) =>
         /\ Len(results[s]) = Len(crime_types(s))
         /\ \A i \in DOMAIN results[s] : results[s][i][1] = crime_types(s)[i]
         /\ Len(calls[s]) = Len(crime_types(s))
    /\ pc[s] = "failed" =>
         /\ top5[s] = <<>>
         /\ ~Shown(s, "entry") /\ ~Shown(s, "alert") /\ ~Shown(s, "subheader")

\* A completed run over a non-empty vocabulary.
C8_Witness ==
  /\ pc[1] = "done"
  /\ Len(results[1]) = NumTypes
  /\ Len(Entries(1)) = Min(5, NumTypes)
  /\ Len(Alerts(1)) = 1

\* C9: no run changes a cached artifact, and what a completed run shows is
\* what its own selection gives on the shared artifacts when run alone.
C9_SessionsIndependent ==
  /\ \A k \in Kinds :
       cache[k] # <<>> =>
         /\ cache[k] = <<FileContent(k, files[k])>>
         /\ \A s \in Sessions : art[s][k] # <<>> => art[s][k] = cache[k]
  /\ \A s \in Sessions :
       pc[s] = "done" =>
         LET alone == ScoredRun(cache["model"][1], cache["encoders"][1],
                                cache["defaults"][1], sel[s]).results
         IN /\ results[s] = alone
            /\ top5[s] = Top5(alone)
            /\ Entries(s) = EntryLines(Top5(alone))
            /\ Alerts(s) = AlertLines(Top5(alone))

\* Two runs in flight with different selections: one completed while the
\* other is in the middle of its scoring loop.
C9_Witness ==
  /\ pc[1] = "done" /\ pc[2] = "loop"
  /\ results[2] # <<>> /\ Len(results[2]) < Len(results[1])
  /\ sel[1] # sel[2]
  /\ top5[1] # Top5(results[2])

====
